---- MODULE Spec2Model ----
(***************************************************************************)
(* Telco churn dashboard (app.py): a Streamlit script that is re-executed  *)
(* top to bottom on every user interaction.  One script run loads the      *)
(* pipeline, renders the form and, when the Predict button was pressed,    *)
(* runs the predict handler.  generate_pdf is modelled as the function it  *)
(* is and applied under SpecPdf.                                            *)
(***************************************************************************)
EXTENDS Integers, Sequences, FiniteSets, TLC

VARIABLES
    fields,      \* widget values held by the session (app.py:24-55)
    pressed,     \* value of st.button("Predict") in the current run
    pc,          \* position of the current script run
    pipeline,    \* None, or the loaded artifact (its capabilities)
    X_new,       \* None, or the one-row frame built by build_input_df
    pred,        \* None, or the label returned by pipeline.predict
    proba,       \* None, or the probability returned by predict_proba
    exc,         \* None, or the exception propagating out of the try block
    out,         \* elements written to the page in the current run
    calls,       \* pipeline entry points invoked in the current run
    now,         \* the wall clock read by datetime.now()
    ticks,       \* seconds elapsed on the clock since the start
    args,        \* arguments handed to generate_pdf
    reports,     \* one entry per generate_pdf call that returned
    files        \* names of the files present in the working directory

vars == <<fields, pressed, pc, pipeline, X_new, pred, proba, exc, out, calls,
          now, ticks, args, reports, files>>

appVars == <<fields, pressed, pc, pipeline, X_new, pred, proba, exc, out, calls>>
pdfVars == <<now, ticks, args, reports, files>>

----------------------------------------------------------------------------
\* Bounds of the model.

\* Number of widgets the user has moved away from their default value.
MaxChanged == 2
\* Seconds the clock advances in one behaviour.
MaxTicks == 2
\* generate_pdf calls in one behaviour.
MaxReports == 2

----------------------------------------------------------------------------
\* Python's None and present values.

None == <<>>
Some(v) == <<v>>

----------------------------------------------------------------------------
\* The form (app.py:22-55).

NoYes == {"No", "Yes"}
NoYesInternet == {"No", "Yes", "No internet service"}

\* Values each widget can hold.  Numbers are sampled; charges are in cents.
Options ==
    [ customer_id       |-> {"", "7590-VHVEG"},
      gender            |-> {"Male", "Female"},
      senior_citizen    |-> NoYes,
      partner           |-> NoYes,
      dependents        |-> NoYes,
      tenure            |-> {0, 12, 100},
      phone_service     |-> NoYes,
      multiple_lines    |-> {"No", "Yes", "No phone service"},
      internet_service  |-> {"DSL", "Fiber optic", "No"},
      online_security   |-> NoYesInternet,
      online_backup     |-> NoYesInternet,
      device_protection |-> NoYesInternet,
      tech_support      |-> NoYesInternet,
      streaming_tv      |-> NoYesInternet,
      streaming_movies  |-> NoYesInternet,
      contract          |-> {"Month-to-month", "One year", "Two year"},
      paperless_billing |-> NoYes,
      payment_method    |-> {"Electronic check", "Mailed check",
                             "Bank transfer (automatic)", "Credit card (automatic)"},
      monthly_charges   |-> {0, 5000, 7000},
      total_charges     |-> {0, 50000} ]

Widgets == DOMAIN Options

\* A selectbox starts on its first option, an input on its value= argument.
Defaults ==
    [ customer_id       |-> "",
      gender            |-> "Male",
      senior_citizen    |-> "No",
      partner           |-> "No",
      dependents        |-> "No",
      tenure            |-> 12,
      phone_service     |-> "No",
      multiple_lines    |-> "No",
      internet_service  |-> "DSL",
      online_security   |-> "No",
      online_backup     |-> "No",
      device_protection |-> "No",
      tech_support      |-> "No",
      streaming_tv      |-> "No",
      streaming_movies  |-> "No",
      contract          |-> "Month-to-month",
      paperless_billing |-> "No",
      payment_method    |-> "Electronic check",
      monthly_charges   |-> 5000,
      total_charges     |-> 50000 ]

Changed(f) == {w \in Widgets : f[w] # Defaults[w]}

----------------------------------------------------------------------------
\* build_input_df (app.py:58-83).

\* Column order of the dict literal.
Columns ==
    << "customerID", "gender", "SeniorCitizen", "Partner", "Dependents", "tenure",
       "PhoneService", "MultipleLines", "InternetService", "OnlineSecurity",
       "OnlineBackup", "DeviceProtection", "TechSupport", "StreamingTV",
       "StreamingMovies", "Contract", "PaperlessBilling", "PaymentMethod",
       "MonthlyCharges", "TotalCharges" >>

\* Variant: the choice compared in the wrong case.
SeniorCitizenLower(choice) == IF choice = "yes" THEN 1 ELSE 0

\* app.py:63.

SeniorCitizenCode(choice) == IF choice = "Yes" THEN 1 ELSE 0

build_data(f) ==
    [ customerID       |-> f.customer_id,
      gender           |-> f.gender,
      SeniorCitizen    |-> SeniorCitizenCode(f.senior_citizen),
      Partner          |-> f.partner,
      Dependents       |-> f.dependents,
      tenure           |-> f.tenure,
      PhoneService     |-> f.phone_service,
      MultipleLines    |-> f.multiple_lines,
      InternetService  |-> f.internet_service,
      OnlineSecurity   |-> f.online_security,
      OnlineBackup     |-> f.online_backup,
      DeviceProtection |-> f.device_protection,
      TechSupport      |-> f.tech_support,
      StreamingTV      |-> f.streaming_tv,
      StreamingMovies  |-> f.streaming_movies,
      Contract         |-> f.contract,
      PaperlessBilling |-> f.paperless_billing,
      PaymentMethod    |-> f.payment_method,
      MonthlyCharges   |-> f.monthly_charges,
      TotalCharges     |-> f.total_charges ]

\* pd.DataFrame([data]): a frame of one row.
build_input_df(f) == << build_data(f) >>

----------------------------------------------------------------------------
\* Input summary of the predict handler (app.py:126-131).

RECURSIVE RowsOf(_, _, _)
RowsOf(row, cols, i) ==
    IF i > Len(cols) THEN <<>>
    ELSE << <<cols[i], row[cols[i]]>> >> \o RowsOf(row, cols, i + 1)

RECURSIVE DropIndex(_, _)
DropIndex(rows, key) ==
    IF rows = <<>> THEN <<>>
    ELSE (IF Head(rows)[1] = key THEN <<>> ELSE << Head(rows) >>)
         \o DropIndex(Tail(rows), key)

\* X_new.T.rename(...), minus the customerID row when customer_id is empty.
display_df(X, customer_id) ==
    LET t == RowsOf(X[1], Columns, 1)
    IN IF customer_id = "" THEN DropIndex(t, "customerID") ELSE t

----------------------------------------------------------------------------
\* The pipeline artifact: opaque, with or without predict_proba.

Pipelines == [has_predict_proba : BOOLEAN]
Labels == {0, 1, 2}
Probas == {0, 50, 100}

\* One invocation of an entry point of the pipeline and how it ended.
Call(fn, batch, raised, value) ==
    [fn |-> fn, batch |-> batch, raised |-> raised, value |-> value]

----------------------------------------------------------------------------
\* One script run.

ResetRun(isPressed) ==
    /\ pressed' = isPressed
    /\ pc' = "load"
    /\ pipeline' = None
    /\ X_new' = None
    /\ pred' = None
    /\ proba' = None
    /\ exc' = None
    /\ out' = <<>>
    /\ calls' = <<>>

\* app.py:9-13: joblib.load succeeds, or st.error and st.stop.
LoadOk ==
    /\ pc = "load"
    /\ \E p \in Pipelines : pipeline' = Some(p)
    /\ pc' = "form"
    /\ UNCHANGED <<fields, pressed, X_new, pred, proba, exc, out, calls>>
    /\ UNCHANGED pdfVars

\* Variant: st.stop() missing after the error.
LoadFailContinue ==
    /\ pc = "load"
    /\ out' = Append(out, [kind |-> "error", text |-> "Failed to load model"])
    /\ pc' = "form"
    /\ UNCHANGED <<fields, pressed, pipeline, X_new, pred, proba, exc, calls>>
    /\ UNCHANGED pdfVars

LoadFail ==
    /\ pc = "load"
    /\ out' = Append(out, [kind |-> "error", text |-> "Failed to load model"])
    /\ pc' = "stopped"
    /\ UNCHANGED <<fields, pressed, pipeline, X_new, pred, proba, exc, calls>>
    /\ UNCHANGED pdfVars

\* app.py:15-55 and the button test of line 122.
RenderForm ==
    /\ pc = "form"
    /\ out' = Append(out, [kind |-> "form", text |-> "Customer details"])
    /\ pc' = IF pressed THEN "summary" ELSE "done"
    /\ UNCHANGED <<fields, pressed, pipeline, X_new, pred, proba, exc, calls>>
    /\ UNCHANGED pdfVars

\* app.py:123-131.
Summary ==
    /\ pc = "summary"
    /\ X_new' = Some(build_input_df(fields))
    /\ out' = out \o << [kind |-> "subheader", text |-> "Input Summary"],
                        [kind |-> "table",
                         rows |-> display_df(build_input_df(fields), fields.customer_id)] >>
    /\ pc' = "predict"
    /\ UNCHANGED <<fields, pressed, pipeline, pred, proba, exc, calls>>
    /\ UNCHANGED pdfVars

\* app.py:135, predict returns: the first prediction of the batch is kept.
PredictOk(label) ==
    /\ pc = "predict"
    /\ calls' = Append(calls, Call("predict", X_new[1], FALSE, Some(label)))
    /\ pred' = Some(label)
    /\ pc' = "proba"
    /\ UNCHANGED <<fields, pressed, pipeline, X_new, proba, exc, out>>
    /\ UNCHANGED pdfVars

\* Variant: an except clause that substitutes the label 0.
PredictRaiseFallback ==
    /\ pc = "predict"
    /\ calls' = Append(calls, Call("predict", X_new[1], TRUE, None))
    /\ pred' = Some(0)
    /\ pc' = "proba"
    /\ UNCHANGED <<fields, pressed, pipeline, X_new, proba, exc, out>>
    /\ UNCHANGED pdfVars

\* Variant: predict called a second time after it raised.
PredictRaiseRetry ==
    /\ pc = "predict"
    /\ calls' = calls \o << Call("predict", X_new[1], TRUE, None),
                            Call("predict", X_new[1], TRUE, None) >>
    /\ exc' = Some("predict raised")
    /\ pc' = "finally"
    /\ UNCHANGED <<fields, pressed, pipeline, X_new, pred, proba, out>>
    /\ UNCHANGED pdfVars

\* app.py:135, predict raises: no except clause, control goes to finally.
PredictRaise ==
    /\ pc = "predict"
    /\ calls' = Append(calls, Call("predict", X_new[1], TRUE, None))
    /\ exc' = Some("predict raised")
    /\ pc' = "finally"
    /\ UNCHANGED <<fields, pressed, pipeline, X_new, pred, proba, out>>
    /\ UNCHANGED pdfVars

\* app.py:136-137, hasattr(pipeline, "predict_proba") is false.
ProbaAbsent ==
    /\ pc = "proba"
    /\ pipeline # None
    /\ ~pipeline[1].has_predict_proba
    /\ proba' = None
    /\ pc' = "verdict"
    /\ UNCHANGED <<fields, pressed, pipeline, X_new, pred, exc, out, calls>>
    /\ UNCHANGED pdfVars

\* app.py:138-139, predict_proba returns: column 1 of row 0 is kept.
ProbaOk(p) ==
    /\ pc = "proba"
    /\ pipeline # None
    /\ pipeline[1].has_predict_proba
    /\ calls' = Append(calls, Call("predict_proba", X_new[1], FALSE, Some(p)))
    /\ proba' = Some(p)
    /\ pc' = "verdict"
    /\ UNCHANGED <<fields, pressed, pipeline, X_new, pred, exc, out>>
    /\ UNCHANGED pdfVars

\* Variant: the inner try/except missing, the exception reaches finally.
ProbaRaisePropagates ==
    /\ pc = "proba"
    /\ pipeline # None
    /\ pipeline[1].has_predict_proba
    /\ calls' = Append(calls, Call("predict_proba", X_new[1], TRUE, None))
    /\ exc' = Some("predict_proba raised")
    /\ pc' = "finally"
    /\ UNCHANGED <<fields, pressed, pipeline, X_new, pred, proba, out>>
    /\ UNCHANGED pdfVars

\* app.py:138-141, predict_proba raises: the exception is swallowed.
ProbaRaise ==
    /\ pc = "proba"
    /\ pipeline # None
    /\ pipeline[1].has_predict_proba
    /\ calls' = Append(calls, Call("predict_proba", X_new[1], TRUE, None))
    /\ proba' = None
    /\ pc' = "verdict"
    /\ UNCHANGED <<fields, pressed, pipeline, X_new, pred, exc, out>>
    /\ UNCHANGED pdfVars

\* Variant: the label tested for truth instead of compared with 1.
VerdictTruthy ==
    /\ pc = "verdict"
    /\ out' = Append(out,
                 IF pred[1] # 0
                 THEN [kind |-> "error", text |-> "This customer is likely to churn."]
                 ELSE [kind |-> "success", text |-> "This customer is not likely to churn."])
    /\ pc' = "finally"
    /\ UNCHANGED <<fields, pressed, pipeline, X_new, pred, proba, exc, calls>>
    /\ UNCHANGED pdfVars

\* app.py:144-147.
Verdict ==
    /\ pc = "verdict"
    /\ out' = Append(out,
                 IF pred[1] = 1
                 THEN [kind |-> "error", text |-> "This customer is likely to churn."]
                 ELSE [kind |-> "success", text |-> "This customer is not likely to churn."])
    /\ pc' = "finally"
    /\ UNCHANGED <<fields, pressed, pipeline, X_new, pred, proba, exc, calls>>
    /\ UNCHANGED pdfVars

\* app.py:150-151, then the pending exception, if any, leaves the script.
Finally ==
    /\ pc = "finally"
    /\ out' = Append(out, [kind |-> "write", text |-> "Prediction attempt finished."])
    /\ pc' = IF exc = None THEN "done" ELSE "raised"
    /\ UNCHANGED <<fields, pressed, pipeline, X_new, pred, proba, exc, calls>>
    /\ UNCHANGED pdfVars

----------------------------------------------------------------------------
\* User interaction: each one re-executes the script from the top.

Finished == pc \in {"done", "raised"}

\* The user edits one widget of the rendered form.
SetWidget(w, v) ==
    /\ Finished
    /\ v # fields[w]
    /\ Cardinality(Changed([fields EXCEPT ![w] = v])) <= MaxChanged
    /\ fields' = [fields EXCEPT ![w] = v]
    /\ ResetRun(FALSE)
    /\ UNCHANGED pdfVars

\* The user clicks the Predict button of the rendered form.
PressPredict ==
    /\ Finished
    /\ ResetRun(TRUE)
    /\ UNCHANGED fields
    /\ UNCHANGED pdfVars

\* The user reloads the page; possible also after st.stop().
Rerun ==
    /\ pc \in {"done", "raised", "stopped"}
    /\ ResetRun(FALSE)
    /\ UNCHANGED fields
    /\ UNCHANGED pdfVars

----------------------------------------------------------------------------
\* The clock, as the fields strftime reads.

Epoch == [Y |-> 2023, m |-> 12, d |-> 31, H |-> 23, M |-> 59, S |-> 58]

IsLeap(y) == (y % 4 = 0 /\ y % 100 # 0) \/ y % 400 = 0

DaysIn(y, m) ==
    IF m = 2 THEN (IF IsLeap(y) THEN 29 ELSE 28)
    ELSE IF m \in {4, 6, 9, 11} THEN 30 ELSE 31

\* The instant one second after t.
AddSecond(t) ==
    IF t.S < 59 THEN [t EXCEPT !.S = t.S + 1]
    ELSE IF t.M < 59 THEN [t EXCEPT !.S = 0, !.M = t.M + 1]
    ELSE IF t.H < 23 THEN [t EXCEPT !.S = 0, !.M = 0, !.H = t.H + 1]
    ELSE IF t.d < DaysIn(t.Y, t.m)
         THEN [t EXCEPT !.S = 0, !.M = 0, !.H = 0, !.d = t.d + 1]
    ELSE IF t.m < 12
         THEN [t EXCEPT !.S = 0, !.M = 0, !.H = 0, !.d = 1, !.m = t.m + 1]
    ELSE [Y |-> t.Y + 1, m |-> 1, d |-> 1, H |-> 0, M |-> 0, S |-> 0]

\* Instants the clock may show when the first report is asked for: around
\* every carry of the seconds into minutes, hours, days, months and years,
\* and around the steps from one digit to two.
ClockSamples ==
    { t \in [Y : {2023, 2024}, m : 1..12, d : {9, 28, 29, 30, 31},
             H : {9, 23}, M : {9, 59}, S : {9, 59}] : t.d <= DaysIn(t.Y, t.m) }

----------------------------------------------------------------------------
\* strftime, as sequences of one-character strings.

DigitChar == <<"0", "1", "2", "3", "4", "5", "6", "7", "8", "9">>

\* %m %d %H %M %S: two digits, zero padded.
Pad2(n) == << DigitChar[(n \div 10) + 1], DigitChar[(n % 10) + 1] >>

\* %Y: the decimal digits of the year.
RECURSIVE Decimal(_)
Decimal(n) ==
    IF n < 10 THEN << DigitChar[n + 1] >>
    ELSE Decimal(n \div 10) \o << DigitChar[(n % 10) + 1] >>

\* Variant: the seconds left out of the format.
FileStampMinutes(t) ==
    Decimal(t.Y) \o Pad2(t.m) \o Pad2(t.d) \o <<"_">> \o Pad2(t.H) \o Pad2(t.M)

\* app.py:117, strftime('%Y%m%d_%H%M%S').
FileStamp(t) ==
    Decimal(t.Y) \o Pad2(t.m) \o Pad2(t.d) \o <<"_">>
        \o Pad2(t.H) \o Pad2(t.M) \o Pad2(t.S)

\* app.py:96, strftime('%Y-%m-%d %H:%M:%S').
GeneratedStamp(t) ==
    Decimal(t.Y) \o <<"-">> \o Pad2(t.m) \o <<"-">> \o Pad2(t.d) \o <<" ">>
        \o Pad2(t.H) \o <<":">> \o Pad2(t.M) \o <<":">> \o Pad2(t.S)

\* app.py:117, f"churn_report_{...}.pdf".
FileName(t) ==
    <<"c", "h", "u", "r", "n", "_", "r", "e", "p", "o", "r", "t", "_">>
        \o FileStamp(t) \o <<".", "p", "d", "f">>

----------------------------------------------------------------------------
\* generate_pdf (app.py:86-119).  A document is the sequence of cells
\* written, each with its text pieces and the text colour in force.

Black == <<0, 0, 0>>
Red == <<200, 30, 30>>
Green == <<30, 130, 30>>

Cell(text, color) == [text |-> text, color |-> color]

\* app.py:102-104: one multi_cell per item of the dict, in insertion order.
RECURSIVE ItemCells(_, _)
ItemCells(customer_dict, i) ==
    IF i > Len(Columns) THEN <<>>
    ELSE << Cell(<<Columns[i], ": ", customer_dict[Columns[i]]>>, Black) >>
         \o ItemCells(customer_dict, i + 1)

\* app.py:108-110; each text ends in a cross or check mark glyph.
VerdictCell(pred_label) ==
    IF pred_label = 1
    THEN Cell(<<"Prediction: ", "LIKELY TO CHURN">>, Red)
    ELSE Cell(<<"Prediction: ", "NOT LIKELY TO CHURN">>, Green)

\* Variant: the probability tested for truth, so that 0.0 counts as absent.
ProbaCellsTruthy(pred_proba) ==
    IF pred_proba # None /\ pred_proba[1] # 0
    THEN << Cell(<<"Probability of churn: ", pred_proba[1], ".00%">>, Black) >>
    ELSE <<>>

\* app.py:112-115.
ProbaCells(pred_proba) ==
    IF pred_proba # None
    THEN << Cell(<<"Probability of churn: ", pred_proba[1], ".00%">>, Black) >>
    ELSE <<>>

\* app.py:87-115: the cells in the order they are written; t is the clock
\* value read at line 96.
Document(customer_dict, pred_label, pred_proba, t) ==
    << Cell(<<"Telco Customer Churn Prediction Report">>, Black),
       Cell(<<"Generated: ", GeneratedStamp(t)>>, Black),
       Cell(<<"Customer Input:">>, Black) >>
        \o ItemCells(customer_dict, 1)
        \o << VerdictCell(pred_label) >>
        \o ProbaCells(pred_proba)

\* Seconds pass.
Tick ==
    /\ ticks < MaxTicks
    /\ now' = AddSecond(now)
    /\ ticks' = ticks + 1
    /\ UNCHANGED <<args, reports, files>>
    /\ UNCHANGED appVars

\* generate_pdf returns: the document is written under the name built from
\* the second reading of the clock (line 117), which may be one second after
\* the first (line 96).
GeneratePdf(late) ==
    /\ args # None
    /\ Len(reports) < MaxReports
    /\ late => ticks < MaxTicks
    /\ LET t1 == now
           t2 == IF late THEN AddSecond(now) ELSE now
           a == args[1]
           doc == Document(a.customer_dict, a.pred_label, a.pred_proba, t1)
           filename == FileName(t2)
       IN /\ now' = t2
          /\ ticks' = IF late THEN ticks + 1 ELSE ticks
          /\ files' = files \cup {filename}
          /\ reports' = Append(reports, [name |-> filename, at |-> t2, doc |-> doc])
    /\ UNCHANGED args
    /\ UNCHANGED appVars

\* generate_pdf raises in pdf.output (line 118): nothing is written or
\* returned.
GeneratePdfRaise ==
    /\ args # None
    /\ Len(reports) < MaxReports
    /\ UNCHANGED pdfVars
    /\ UNCHANGED appVars

PdfIdle ==
    /\ now = Epoch
    /\ ticks = 0
    /\ args = None
    /\ reports = <<>>
    /\ files = {}

Init ==
    /\ fields = Defaults
    /\ pressed = FALSE
    /\ pc = "load"
    /\ pipeline = None
    /\ X_new = None
    /\ pred = None
    /\ proba = None
    /\ exc = None
    /\ out = <<>>
    /\ calls = <<>>
    /\ PdfIdle

Next ==
    \/ LoadOk
    \/ LoadFail
    \/ RenderForm
    \/ Summary
    \/ \E label \in Labels : PredictOk(label)
    \/ PredictRaise
    \/ ProbaAbsent
    \/ \E p \in Probas : ProbaOk(p)
    \/ ProbaRaise
    \/ Verdict
    \/ Finally
    \/ \E w \in Widgets : \E v \in Options[w] : SetWidget(w, v)
    \/ PressPredict
    \/ Rerun

Spec == Init /\ [][Next]_vars

----------------------------------------------------------------------------
\* generate_pdf applied to records of the form and to prediction results.

\* Forms with at most one widget moved from its default.
PdfForms ==
    {Defaults} \cup
    { [Defaults EXCEPT ![w] = v] : <<w, v>> \in
         UNION { {w} \X Options[w] : w \in Widgets } }

PdfArgs(f, label, p) ==
    Some([customer_dict |-> build_data(f), pred_label |-> label, pred_proba |-> p])

AppIdle ==
    /\ pressed = FALSE
    /\ pc = "load"
    /\ pipeline = None
    /\ X_new = None
    /\ pred = None
    /\ proba = None
    /\ exc = None
    /\ out = <<>>
    /\ calls = <<>>

InitPdf ==
    /\ AppIdle
    /\ ticks = 0
    /\ reports = <<>>
    /\ files = {}
    /\ \/ /\ now = Epoch
          /\ fields \in PdfForms
          /\ \E label \in Labels :
               \E p \in {None} \cup {Some(q) : q \in Probas} :
                  args = PdfArgs(fields, label, p)
       \/ /\ now \in ClockSamples
          /\ fields = Defaults
          /\ args = PdfArgs(fields, 1, Some(50))

NextPdf ==
    \/ Tick
    \/ \E late \in BOOLEAN : GeneratePdf(late)
    \/ GeneratePdfRaise

SpecPdf == InitPdf /\ [][NextPdf]_vars

----------------------------------------------------------------------------
\* Vocabulary of the properties.

ColumnSet == {Columns[i] : i \in 1..Len(Columns)}

\* The widget whose captured value each column is said to carry.
CapturedAs ==
    [ customerID       |-> "customer_id",
      gender           |-> "gender",
      SeniorCitizen    |-> "senior_citizen",
      Partner          |-> "partner",
      Dependents       |-> "dependents",
      tenure           |-> "tenure",
      PhoneService     |-> "phone_service",
      MultipleLines    |-> "multiple_lines",
      InternetService  |-> "internet_service",
      OnlineSecurity   |-> "online_security",
      OnlineBackup     |-> "online_backup",
      DeviceProtection |-> "device_protection",
      TechSupport      |-> "tech_support",
      StreamingTV      |-> "streaming_tv",
      StreamingMovies  |-> "streaming_movies",
      Contract         |-> "contract",
      PaperlessBilling |-> "paperless_billing",
      PaymentMethod    |-> "payment_method",
      MonthlyCharges   |-> "monthly_charges",
      TotalCharges     |-> "total_charges" ]

CallsTo(fn) == SelectSeq(calls, LAMBDA c : c.fn = fn)
Shown(kinds) == SelectSeq(out, LAMBDA o : o.kind \in kinds)
VerdictKinds == {"error", "success"}
Notices == SelectSeq(out, LAMBDA o : o.kind = "write")

HandlerEnded == pressed /\ pc \in {"done", "raised"}
PredictReturned == Len(CallsTo("predict")) = 1 /\ ~CallsTo("predict")[1].raised
PredictRaised == \E i \in 1..Len(calls) : calls[i].fn = "predict" /\ calls[i].raised
ProbaRaised == \E i \in 1..Len(calls) : calls[i].fn = "predict_proba" /\ calls[i].raised
ProbaStepOver == pc \in {"verdict", "finally", "done", "raised"}
ProbaUnavailable ==
    /\ pipeline # None
    /\ ProbaStepOver
    /\ PredictReturned
    /\ (~pipeline[1].has_predict_proba \/ ProbaRaised)

----------------------------------------------------------------------------
\* C1: the frame built by build_input_df has one row whose keys are exactly
\* the 20 columns of the schema; SeniorCitizen is 1 when the captured choice
\* is "Yes" and 0 otherwise; every other column equals the captured value of
\* its widget.
C1_BuildInputDfSchema ==
    X_new # None =>
        LET X == X_new[1] IN
        /\ Len(X) = 1
        /\ DOMAIN X[1] = ColumnSet
        /\ Cardinality(DOMAIN X[1]) = 20
        /\ X[1].SeniorCitizen \in {0, 1}
        /\ (X[1].SeniorCitizen = 1) <=> (fields.senior_citizen = "Yes")
        /\ \A c \in ColumnSet \ {"SeniorCitizen"} : X[1][c] = fields[CapturedAs[c]]

\* A frame built from a form whose senior citizen choice is "Yes" and whose
\* tenure was edited.
C1_Witness ==
    /\ X_new # None
    /\ fields.senior_citizen = "Yes"
    /\ fields.tenure = 100
    /\ X_new[1][1].SeniorCitizen = 1

\* C2: once predict has returned a label, a missing or raising predict_proba
\* leaves the probability None, lets no exception escape, and the verdict for
\* the returned label is shown.
C2_ProbabilityUnavailableNotFatal ==
    ProbaUnavailable =>
        /\ proba = None
        /\ exc = None
        /\ pc # "raised"
        /\ pred = CallsTo("predict")[1].value
        /\ pc \in {"finally", "done"} =>
              /\ Len(Shown(VerdictKinds)) = 1
              /\ (Shown(VerdictKinds)[1].kind = "error") <=> (pred[1] = 1)

\* A finished request in which predict returned the churn label and
\* predict_proba raised.
C2_Witness ==
    /\ pc = "done"
    /\ ProbaUnavailable
    /\ ProbaRaised
    /\ pred = Some(1)

\* C3: when predict raises, the exception leaves the handler, no label is
\* substituted and neither verdict message is displayed.
C3_InferenceErrorIsFatal ==
    PredictRaised =>
        /\ exc # None
        /\ pred = None
        /\ Shown(VerdictKinds) = <<>>
        /\ pc \in {"finally", "raised"}

\* A request that ended with the exception of predict leaving the script.
C3_Witness ==
    /\ pc = "raised"
    /\ PredictRaised
    /\ Len(out) = 4

\* C4: a run whose load failed shows the error and stops: it renders no form,
\* builds no frame, runs no handler step and calls no entry point of the
\* pipeline.
C4_LoadFailureHalts ==
    /\ pipeline = None =>
          /\ pc \in {"load", "stopped"}
          /\ calls = <<>>
          /\ X_new = None
          /\ pred = None
          /\ Shown({"form", "subheader", "table", "success", "write"}) = <<>>
    /\ pc = "stopped" =>
          /\ pipeline = None
          /\ Len(out) = 1
          /\ out[1].kind = "error"

\* A run stopped by a failed load after Predict was pressed.
C4_Witness ==
    /\ pc = "stopped"
    /\ pressed
    /\ fields # Defaults

\* C5: every request whose inference succeeded has handed the record and the
\* result to generate_pdf, which wrote one report file.
C5_ReportRenderedPerRequest ==
    (HandlerEnded /\ PredictReturned /\ pc = "done") =>
        /\ Len(reports) = 1
        /\ Cardinality(files) = 1

\* C9: in one run predict is called at most once and predict_proba at most
\* once, each with the one-row frame; a finished request has called predict
\* exactly once, also when predict or predict_proba raised.
C9_SingleInferenceCall ==
    /\ Len(CallsTo("predict")) <= 1
    /\ Len(CallsTo("predict_proba")) <= 1
    /\ \A i \in 1..Len(calls) : Len(calls[i].batch) = 1 /\ Some(calls[i].batch) = X_new
    /\ HandlerEnded => Len(CallsTo("predict")) = 1
    /\ (pc \in {"done", "raised"} /\ ~pressed) => calls = <<>>

\* A finished request in which predict_proba raised after predict returned.
C9_Witness ==
    /\ HandlerEnded
    /\ ProbaRaised
    /\ Len(calls) = 2

\* C10: a finished request ends with the notice, written once and last; when
\* predict returned, exactly one verdict message precedes it directly (the
\* error message when the label is 1, the success message otherwise); when
\* predict raised, no verdict message was written.
C10_NoticeLast ==
    /\ Len(Notices) <= 1
    /\ (Notices # <<>>) => out[Len(out)].kind = "write"
    /\ HandlerEnded =>
          /\ Len(Notices) = 1
          /\ pred # None =>
                /\ Len(Shown(VerdictKinds)) = 1
                /\ out[Len(out) - 1].kind = (IF pred[1] = 1 THEN "error" ELSE "success")
          /\ pred = None => Shown(VerdictKinds) = <<>>

\* A finished request whose label is neither 0 nor 1.
C10_Witness ==
    /\ HandlerEnded
    /\ pred = Some(2)
    /\ out[Len(out) - 1].kind = "success"

----------------------------------------------------------------------------
\* Vocabulary of the properties of generate_pdf.

ItemCellsOf(doc) == SelectSeq(doc, LAMBDA c : c.text[1] \in ColumnSet)
VerdictCellsOf(doc) == SelectSeq(doc, LAMBDA c : c.text[1] = "Prediction: ")
ProbaCellsOf(doc) == SelectSeq(doc, LAMBDA c : c.text[1] = "Probability of churn: ")
HasItem(doc, k) == \E i \in 1..Len(doc) : doc[i].text[1] = k

\* Characters of a file name in code point order.
Alphabet ==
    << ".", "0", "1", "2", "3", "4", "5", "6", "7", "8", "9", "_",
       "c", "d", "e", "f", "h", "n", "o", "p", "r", "t", "u" >>
Ord(c) == CHOOSE i \in 1..Len(Alphabet) : Alphabet[i] = c

\* a < b as Python compares strings.
RECURSIVE LexLess(_, _)
LexLess(a, b) ==
    IF b = <<>> THEN FALSE
    ELSE IF a = <<>> THEN TRUE
    ELSE IF Head(a) # Head(b) THEN Ord(Head(a)) < Ord(Head(b))
    ELSE LexLess(Tail(a), Tail(b))

IsDigit(c) == \E i \in 1..10 : DigitChar[i] = c
DigitVal(c) == (CHOOSE i \in 1..10 : DigitChar[i] = c) - 1
Num2(n, i) == 10 * DigitVal(n[i]) + DigitVal(n[i + 1])

\* n reads churn_report_<YYYYMMDD_HHMMSS>.pdf and its digits spell t.
NamesInstant(n, t) ==
    /\ Len(n) = 32
    /\ SubSeq(n, 1, 13) = <<"c", "h", "u", "r", "n", "_", "r", "e", "p", "o", "r", "t", "_">>
    /\ SubSeq(n, 29, 32) = <<".", "p", "d", "f">>
    /\ n[22] = "_"
    /\ \A i \in (14..21) \cup (23..28) : IsDigit(n[i])
    /\ 100 * Num2(n, 14) + Num2(n, 16) = t.Y
    /\ Num2(n, 18) = t.m
    /\ Num2(n, 20) = t.d
    /\ Num2(n, 23) = t.H
    /\ Num2(n, 25) = t.M
    /\ Num2(n, 27) = t.S

----------------------------------------------------------------------------
\* C6: every report holds exactly one verdict cell, reading LIKELY TO CHURN
\* when the label is 1 and NOT LIKELY TO CHURN otherwise, and holds the
\* probability cell exactly when the probability is not None.
C6_VerdictAndProbabilityCells ==
    \A i \in 1..Len(reports) :
        LET doc == reports[i].doc
            a == args[1]
        IN /\ Len(VerdictCellsOf(doc)) = 1
           /\ VerdictCellsOf(doc)[1].text[2] =
                 (IF a.pred_label = 1 THEN "LIKELY TO CHURN" ELSE "NOT LIKELY TO CHURN")
           /\ Len(ProbaCellsOf(doc)) = (IF a.pred_proba # None THEN 1 ELSE 0)

\* A report for a label that is neither 0 nor 1 with the probability 0.
C6_Witness ==
    /\ Len(reports) >= 1
    /\ args[1].pred_label = 2
    /\ args[1].pred_proba = Some(0)
    /\ Len(ProbaCellsOf(reports[1].doc)) = 1

\* C7: the listing of every report has a cell for each non-empty field of
\* the record and none for customerID when customerID is the empty string.
C7_ListingOmitsBlankCustomerID ==
    \A i \in 1..Len(reports) :
        LET doc == reports[i].doc
            d == args[1].customer_dict
        IN /\ \A k \in ColumnSet \ {"customerID"} : HasItem(doc, k)
           /\ d.customerID # "" => HasItem(doc, "customerID")
           /\ d.customerID = "" => ~HasItem(doc, "customerID")

\* C8: the name of every report reads churn_report_<YYYYMMDD_HHMMSS>.pdf with
\* the digits of the clock at the time the name was built; of two reports
\* named one second apart the later has a different and lexicographically
\* greater name; two reports named in the same second have the same name.
C8_FileNamesOrdered ==
    \A i \in 1..Len(reports) :
        /\ NamesInstant(reports[i].name, reports[i].at)
        /\ reports[i].name \in files
        /\ \A j \in 1..Len(reports) :
              /\ reports[j].at = AddSecond(reports[i].at) =>
                    /\ reports[i].name # reports[j].name
                    /\ LexLess(reports[i].name, reports[j].name)
                    /\ ~LexLess(reports[j].name, reports[i].name)
              /\ reports[j].at = reports[i].at => reports[j].name = reports[i].name

\* Two reports named one second apart across the end of a year.
C8_Witness ==
    /\ Len(reports) = 2
    /\ reports[1].at = [Y |-> 2024, m |-> 12, d |-> 31, H |-> 23, M |-> 59, S |-> 59]
    /\ reports[2].at = AddSecond(reports[1].at)
    /\ Cardinality(files) = 2

====
